---- MODULE Spec2Model ----
(***************************************************************************)
(* Model of the crashpad-sys C wrapper (crashpad_wrapper.cc, wrapper.h):   *)
(* a flat extern "C" surface over crashpad::CrashpadClient.                *)
(*                                                                         *)
(* State: the build platform, the native heap of CrashpadClient objects,   *)
(* the handles the caller holds, and a record of the most recent adapter   *)
(* call (its arguments, how it ended, the wrapped-library calls it made    *)
(* and what it returned).  The wrapper has no file-scope variables, so no  *)
(* other program state exists.                                             *)
(***************************************************************************)
EXTENDS Integers, Sequences, FiniteSets, TLC

VARIABLES platform, live, owned, last

vars == <<platform, live, owned, last>>

(***************************************************************************)
(* Bounds of the model.                                                    *)
(***************************************************************************)
MaxClients == 2
MaxAnn == 2
MaxArgs == 2
ApiAnn == 1
ApiArgs == 1

(***************************************************************************)
(* Build platforms and the preprocessor.                                   *)
(***************************************************************************)
Platforms == {"Windows", "macOS", "iOS", "Linux", "Android"}

\* Macros the compiler predefines for each target.  Android toolchains
\* define __linux__ as well as __ANDROID__ (Android is a Linux target).
Predefined(p) ==
    CASE p = "Windows" -> ("_WIN32" :> 1)
      [] p = "macOS"   -> ("__APPLE__" :> 1)
      [] p = "iOS"     -> ("__APPLE__" :> 1)
      [] p = "Linux"   -> ("__linux__" :> 1)
      [] p = "Android" -> ("__linux__" :> 1) @@ ("__ANDROID__" :> 1)

\* What <TargetConditionals.h> adds: TARGET_OS_IOS is always defined by it,
\* as 1 on iOS and as 0 on desktop macOS.
TargetConditionals(p) == ("TARGET_OS_IOS" :> IF p = "iOS" THEN 1 ELSE 0)

\* defined(m)
Defd(env, m) == m \in DOMAIN env

\* The value of m in an #if expression: an undefined identifier is 0.
Val(env, m) == IF m \in DOMAIN env THEN env[m] ELSE 0

\* Macros visible at the guards of crashpad_wrapper.cc: the file includes
\* <TargetConditionals.h> itself when __APPLE__ is defined.
CcEnv(p) ==
    IF Defd(Predefined(p), "__APPLE__")
    THEN Predefined(p) @@ TargetConditionals(p)
    ELSE Predefined(p)

\* Macros visible at the guards of wrapper.h: it includes only <stdbool.h>
\* and <stddef.h>, so nothing beyond the predefined macros.
HEnv(p) == Predefined(p)

(***************************************************************************)
(* The preprocessor guards of the two files.                               *)
(***************************************************************************)
CcGuardWin32(env) == Defd(env, "_WIN32")

CcGuardApple(env) == Defd(env, "__APPLE__")

\* A guard that forgets TARGET_OS_IOS.
CcGuardAppleOnly(env) == Defd(env, "__APPLE__")

CcGuardIOS(env) ==
    Defd(env, "__APPLE__") /\ Defd(env, "TARGET_OS_IOS") /\ Val(env, "TARGET_OS_IOS") # 0

CcGuardLinux(env) == Defd(env, "__linux__") \/ Defd(env, "__ANDROID__")

HGuardWin32(env) == Defd(env, "_WIN32")

HGuardApple(env) == Defd(env, "__APPLE__")

HGuardIOS(env) ==
    HGuardApple(env) /\ Defd(env, "TARGET_OS_IOS") /\ Val(env, "TARGET_OS_IOS") # 0

(***************************************************************************)
(* Function signatures: <<name, parameter types>>.                         *)
(***************************************************************************)
SigNew == <<"crashpad_client_new", <<>>>>

SigDelete == <<"crashpad_client_delete", <<"crashpad_client_t">>>>

SigStartHandler ==
    <<"crashpad_client_start_handler",
      <<"crashpad_client_t", "const char*", "const char*", "const char*",
        "const char*", "const char**", "const char**", "size_t",
        "const char**", "size_t">>>>

SigIpcPipe ==
    <<"crashpad_client_set_handler_ipc_pipe", <<"crashpad_client_t", "const wchar_t*">>>>

SigMachService ==
    <<"crashpad_client_set_handler_mach_service", <<"crashpad_client_t", "const char*">>>>

SigSystemDefault ==
    <<"crashpad_client_use_system_default_handler", <<"crashpad_client_t">>>>

SigInProcess ==
    <<"crashpad_client_start_in_process_handler",
      <<"crashpad_client_t", "const char*", "const char*", "const char**",
        "const char**", "size_t">>>>

SigIntermediateDumps == <<"crashpad_client_process_intermediate_dumps", <<>>>>

SigPendingReports == <<"crashpad_client_start_processing_pending_reports", <<>>>>

SigDump == <<"crashpad_dump_without_crash", <<>>>>

SigDumpCtx(ptr) == <<"crashpad_dump_without_crash_with_context", <<ptr>>>>

\* The parameter type of crashpad_dump_without_crash_with_context as the
\* implementation defines it under each branch of its #ifdef chain.
CcDumpCtxParam(env) ==
    IF CcGuardWin32(env) THEN "const void*" ELSE "void*"

\* The functions crashpad_wrapper.cc defines under macro environment env.
CcDefinitions(env) ==
    {SigNew, SigDelete, SigStartHandler, SigDump, SigDumpCtx(CcDumpCtxParam(env))}
    \cup (IF CcGuardWin32(env) THEN {SigIpcPipe} ELSE {})
    \cup (IF CcGuardApple(env) THEN {SigMachService, SigSystemDefault} ELSE {})
    \cup (IF CcGuardIOS(env)
          THEN {SigInProcess, SigIntermediateDumps, SigPendingReports}
          ELSE {})

\* The functions wrapper.h declares under macro environment env.
HDeclarations(env) ==
    {SigNew, SigDelete, SigStartHandler, SigDump, SigDumpCtx("void*")}
    \cup (IF HGuardWin32(env) THEN {SigIpcPipe} ELSE {})
    \cup (IF HGuardApple(env) THEN {SigMachService, SigSystemDefault} ELSE {})
    \cup (IF HGuardIOS(env)
          THEN {SigInProcess, SigIntermediateDumps, SigPendingReports}
          ELSE {})

Names(sigs) == {s[1] : s \in sigs}

\* A function can be called in a build exactly when the build defines it.
Exposed(p, sig) == sig[1] \in Names(CcDefinitions(CcEnv(p)))

(***************************************************************************)
(* Text pointers.  A const char* is either the null pointer or points to   *)
(* a null-terminated string, modelled by its contents.                     *)
(***************************************************************************)
NULL == "nullptr"

HandlerPaths == {"/handler"}
DatabasePaths == {"/db"}
MetricsPaths == {"/metrics"}
Urls == {"https://u"}
Keys == {"k1", "k2"}
Values == {"a", "b"}
Arguments == {"--x", "--y"}
PipeNames == {"\\\\.\\pipe\\crashpad"}
ServiceNames == {"org.crashpad.svc"}

\* The CPU contexts CaptureContext can capture or a caller can supply.
Contexts == {"ctx1", "ctx2"}

OrNull(S) == S \cup {NULL}

SeqsUpTo(S, n) == UNION {[1..k -> S] : k \in 0..n}

\* The addresses operator new can hand out.
Addrs == 1..MaxClients

(***************************************************************************)
(* std::string, base::FilePath, std::map and std::vector as the wrapper    *)
(* uses them.                                                              *)
(***************************************************************************)
\* std::string(const char*), std::string::operator=(const char*) and
\* base::UTF8ToWide(const char*) read the string the pointer points to:
\* with a null pointer the behaviour is undefined.
ReadsNull(ptr) == ptr = NULL

\* What undefined behaviour on a null string pointer does in a build: the
\* read faults, or the library throws std::logic_error out of the extern
\* "C" function.  Either way the call never reaches the wrapped library.
UBOutcomes == {"crash", "throw"}

\* base::FilePath(path): the path in the platform's narrow encoding.
NarrowFilePath(path) == [wide |-> FALSE, value |-> path]

\* base::FilePath(base::UTF8ToWide(path)): the path as a wide string.
WideFilePath(path) == [wide |-> TRUE, value |-> path]

\* The #ifdef _WIN32 of crashpad_client_start_handler: wide paths on
\* Windows, narrow ones elsewhere.
FilePath(env, path) ==
    IF CcGuardWin32(env) THEN WideFilePath(path) ELSE NarrowFilePath(path)

\* std::string url_str(url ? url : "")
UrlStr(url) == IF url # NULL THEN url ELSE ""

EmptyMap == [k \in {} |-> ""]

\* A map with static storage: it still holds what the previous marshalling
\* call put into it.
StaleAnnotations ==
    IF last.outcome = "returned"
       /\ last.op \in {"crashpad_client_start_handler",
                       "crashpad_client_start_in_process_handler"}
    THEN last.native[1].arg.annotations
    ELSE EmptyMap

\* std::map<std::string, std::string> annotations;
LocalAnnotations == EmptyMap

\* std::vector<std::string> arguments;
LocalArguments == <<>>

\* std::map::insert, which keeps the value of a key already present.
MapInsert(m, k, v) ==
    [x \in DOMAIN m \cup {k} |-> IF x \in DOMAIN m THEN m[x] ELSE v]

\* annotations[k] = v
MapAssign(m, k, v) ==
    [x \in DOMAIN m \cup {k} |-> IF x = k THEN v ELSE m[x]]

\* std::vector::insert at the front.
PushFront(vec, s) == <<s>> \o vec

\* arguments.push_back(s)
PushBack(vec, s) == Append(vec, s)

RECURSIVE AnnotationLoop(_, _, _, _, _)
\* for (i = 0; i < annotations_count; i++) annotations[keys[i]] = values[i];
\* (indices are 1-based here)
AnnotationLoop(m, keys, vals, i, n) ==
    IF i > n THEN m
    ELSE AnnotationLoop(MapAssign(m, keys[i], vals[i]), keys, vals, i + 1, n)

RECURSIVE ArgumentLoop(_, _, _, _)
\* for (i = 0; i < extra_arguments_count; i++)
\*     if (extra_arguments[i]) arguments.push_back(extra_arguments[i]);
ArgumentLoop(vec, arr, i, n) ==
    IF i > n THEN vec
    ELSE ArgumentLoop(IF arr[i] # NULL THEN PushBack(vec, arr[i]) ELSE vec,
                      arr, i + 1, n)

\* if (extra_arguments != nullptr) { ... }.  An array pointer is
\* [null, elems]: a null pointer has no elements whatever the count says.
MarshalArguments(extra, count) ==
    IF ~extra.null THEN ArgumentLoop(LocalArguments, extra.elems, 1, count)
    ELSE LocalArguments

\* The annotation loop reads a null key or value as a string.
AnnotationsReadNull(keys, vals, n) ==
    \E i \in 1..n : ReadsNull(keys[i]) \/ ReadsNull(vals[i])

\* restartable = true
Restartable == TRUE

\* A build that asks for asynchronous startup everywhere.
AlwaysAsynchronous(env) == TRUE

\* #ifdef __linux__ asynchronous_start = false; #else ... = true;
AsynchronousStart(env) == ~Defd(env, "__linux__")

\* A wrapper that reports success whatever the library said.
AlwaysTrue(libRet) == TRUE

\* The boolean a wrapper function returns is the one the library returned.
ReturnOf(libRet) == libRet

(***************************************************************************)
(* Inputs of the marshalling calls.                                        *)
(***************************************************************************)
\* An array argument: a null pointer, or an array of count entries.
NullArray == [null |-> TRUE, elems |-> <<>>]

ArrayOf(elems) == [null |-> FALSE, elems |-> elems]

StartArgs(hp, dp, mp, url, keys, vals, extra, count) ==
    [handler_path |-> hp, database_path |-> dp, metrics_path |-> mp,
     url |-> url,
     annotations_keys |-> keys, annotations_values |-> vals,
     annotations_count |-> Len(keys),
     extra_arguments |-> extra, extra_arguments_count |-> count]

\* Calls that vary which of the four text pointers are null.
PathInputs ==
    {StartArgs(hp, dp, mp, url, <<>>, <<>>, NullArray, 0) :
        hp \in OrNull(HandlerPaths), dp \in OrNull(DatabasePaths),
        mp \in OrNull(MetricsPaths), url \in OrNull(Urls)}

\* Calls that vary the annotation arrays: equal lengths up to n, any entry
\* of either array possibly null.
AnnInputs(n) ==
    UNION {{StartArgs("/handler", "/db", "/metrics", "https://u", ks, vs, NullArray, 0) :
                ks \in [1..k -> OrNull(Keys)], vs \in [1..k -> OrNull(Values)]} :
           k \in 0..n}

\* Calls that vary the extra arguments: a null array with any count, or an
\* array of up to n entries, any of them possibly null.
ArgInputs(n) ==
    {StartArgs("/handler", "/db", "/metrics", "https://u", <<>>, <<>>, NullArray, c) :
        c \in 0..n}
    \cup
    {StartArgs("/handler", "/db", "/metrics", "https://u", <<>>, <<>>, ArrayOf(e), Len(e)) :
        e \in SeqsUpTo(OrNull(Arguments), n)}

StartInputs(nAnn, nArgs) == PathInputs \cup AnnInputs(nAnn) \cup ArgInputs(nArgs)

\* The arguments of crashpad_client_start_in_process_handler.
InProcessArgs(a) ==
    [database_path |-> a.database_path, url |-> a.url,
     annotations_keys |-> a.annotations_keys,
     annotations_values |-> a.annotations_values,
     annotations_count |-> a.annotations_count]

InProcessInputs(nAnn) == {InProcessArgs(a) : a \in PathInputs \cup AnnInputs(nAnn)}

(***************************************************************************)
(* The record of a call.  The client handle passed to a call is some live  *)
(* client (the caller's precondition); the wrapper only casts it and calls *)
(* through it, so the record does not keep it.                             *)
(***************************************************************************)
NoArgs == [none |-> TRUE]

Call(op, args, local, outcome, native, result) ==
    [op |-> op, args |-> args, local |-> local, outcome |-> outcome,
     native |-> native, result |-> result]

\* One call into the wrapped library: the function, its arguments, and
\* what it returned.
Native(fn, arg, ret) == [fn |-> fn, arg |-> arg, ret |-> ret]

\* A call that hit undefined behaviour before reaching the library.
Undefined(op, args, outcome) == Call(op, args, "none", outcome, <<>>, "none")

NoCall == Call("none", NoArgs, "none", "none", <<>>, "none")

\* The process is still running: a call that faulted, or threw out of an
\* extern "C" function, ended it, and no further call is made.
Alive == last.outcome \notin UBOutcomes

(***************************************************************************)
(* Handle lifecycle.                                                       *)
(***************************************************************************)
\* new CrashpadClient(): storage that no live object occupies.
Allocate(heap) == Addrs \ heap

\* A delete that releases nothing.
Leak(heap, client) == heap

\* delete static_cast<CrashpadClient*>(client)
Release(heap, client) == heap \ {client}

RemoveAt(s, i) == SubSeq(s, 1, i - 1) \o SubSeq(s, i + 1, Len(s))

crashpad_client_new ==
    /\ Alive
    /\ Exposed(platform, SigNew)
    /\ Len(owned) < MaxClients
    /\ \E a \in Allocate(live) :
        /\ live' = live \cup {a}
        /\ owned' = Append(owned, a)
        /\ last' = Call("crashpad_client_new", NoArgs, "none", "returned", <<>>, a)
    /\ UNCHANGED platform

\* Precondition of the caller: the handle is one it holds (created by
\* crashpad_client_new and not yet deleted).
crashpad_client_delete ==
    /\ Alive
    /\ Exposed(platform, SigDelete)
    /\ \E i \in 1..Len(owned) :
        /\ live' = Release(live, owned[i])
        /\ owned' = RemoveAt(owned, i)
        /\ last' = Call("crashpad_client_delete", [client |-> owned[i]], "none",
                        "returned", <<>>, "void")
    /\ UNCHANGED platform

(***************************************************************************)
(* crashpad_client_start_handler                                           *)
(***************************************************************************)
\* The call reads a null pointer as a string: a null path (the three
\* base::FilePath constructions) or a null annotation key or value.  The
\* url and the extra arguments are null-checked and never read when null.
StartHandlerUndefined(a) ==
    \/ ReadsNull(a.handler_path)
    \/ ReadsNull(a.database_path)
    \/ ReadsNull(a.metrics_path)
    \/ AnnotationsReadNull(a.annotations_keys, a.annotations_values, a.annotations_count)

\* The arguments of CrashpadClient::StartHandler.
StartHandlerForward(env, a) ==
    [handler |-> FilePath(env, a.handler_path),
     database |-> FilePath(env, a.database_path),
     metrics |-> FilePath(env, a.metrics_path),
     url |-> UrlStr(a.url),
     annotations |-> AnnotationLoop(LocalAnnotations, a.annotations_keys,
                                    a.annotations_values, 1, a.annotations_count),
     arguments |-> MarshalArguments(a.extra_arguments, a.extra_arguments_count),
     restartable |-> Restartable,
     asynchronous_start |-> AsynchronousStart(env)]

\* inputs: the argument tuples the caller may pass.  libRet: what
\* CrashpadClient::StartHandler returns.
crashpad_client_start_handler(inputs) ==
    /\ Alive
    /\ Exposed(platform, SigStartHandler)
    /\ \E client \in live : TRUE
    /\ \E a \in inputs :
        IF StartHandlerUndefined(a)
        THEN \E o \in UBOutcomes :
                last' = Undefined("crashpad_client_start_handler", a, o)
        ELSE \E libRet \in BOOLEAN :
              last' = Call("crashpad_client_start_handler", a, "none", "returned",
                           <<Native("StartHandler",
                                    StartHandlerForward(CcEnv(platform), a), libRet)>>,
                           ReturnOf(libRet))
    /\ UNCHANGED <<platform, live, owned>>

(***************************************************************************)
(* crashpad_client_set_handler_ipc_pipe, _set_handler_mach_service,        *)
(* _use_system_default_handler                                             *)
(***************************************************************************)
\* SetHandlerIPCPipe takes a const std::wstring&: the wchar_t* argument is
\* converted, which reads it.
crashpad_client_set_handler_ipc_pipe ==
    /\ Alive
    /\ Exposed(platform, SigIpcPipe)
    /\ \E client \in live : TRUE
    /\ \E pipe \in OrNull(PipeNames), libRet \in BOOLEAN :
        IF ReadsNull(pipe)
        THEN \E o \in UBOutcomes :
                last' = Undefined("crashpad_client_set_handler_ipc_pipe",
                                  [ipc_pipe |-> pipe], o)
        ELSE last' = Call("crashpad_client_set_handler_ipc_pipe", [ipc_pipe |-> pipe],
                           "none", "returned",
                           <<Native("SetHandlerIPCPipe", [ipc_pipe |-> pipe], libRet)>>,
                           ReturnOf(libRet))
    /\ UNCHANGED <<platform, live, owned>>

\* SetHandlerMachService takes a const std::string&.
crashpad_client_set_handler_mach_service ==
    /\ Alive
    /\ Exposed(platform, SigMachService)
    /\ \E client \in live : TRUE
    /\ \E name \in OrNull(ServiceNames), libRet \in BOOLEAN :
        IF ReadsNull(name)
        THEN \E o \in UBOutcomes :
                last' = Undefined("crashpad_client_set_handler_mach_service",
                                  [service_name |-> name], o)
        ELSE last' = Call("crashpad_client_set_handler_mach_service",
                           [service_name |-> name], "none", "returned",
                           <<Native("SetHandlerMachService", [service_name |-> name], libRet)>>,
                           ReturnOf(libRet))
    /\ UNCHANGED <<platform, live, owned>>

\* UseSystemDefaultHandler returns void; the wrapper returns true.
crashpad_client_use_system_default_handler ==
    /\ Alive
    /\ Exposed(platform, SigSystemDefault)
    /\ \E client \in live : TRUE
    /\ last' = Call("crashpad_client_use_system_default_handler", NoArgs, "none",
                     "returned", <<Native("UseSystemDefaultHandler", NoArgs, "void")>>,
                     TRUE)
    /\ UNCHANGED <<platform, live, owned>>

(***************************************************************************)
(* The iOS-only functions.                                                 *)
(***************************************************************************)
InProcessUndefined(a) ==
    \/ ReadsNull(a.database_path)
    \/ AnnotationsReadNull(a.annotations_keys, a.annotations_values, a.annotations_count)

\* The arguments of CrashpadClient::StartCrashpadInProcessHandler; the
\* callback is default-constructed (empty).
InProcessForward(a) ==
    [database |-> NarrowFilePath(a.database_path),
     url |-> UrlStr(a.url),
     annotations |-> AnnotationLoop(LocalAnnotations, a.annotations_keys,
                                    a.annotations_values, 1, a.annotations_count),
     callback |-> "empty"]

\* The client argument is cast and not used: the library function is static.
crashpad_client_start_in_process_handler(inputs) ==
    /\ Alive
    /\ Exposed(platform, SigInProcess)
    /\ \E client \in live : TRUE
    /\ \E a \in inputs :
        IF InProcessUndefined(a)
        THEN \E o \in UBOutcomes :
                last' = Undefined("crashpad_client_start_in_process_handler", a, o)
        ELSE \E libRet \in BOOLEAN :
              last' = Call("crashpad_client_start_in_process_handler", a, "none",
                           "returned",
                           <<Native("StartCrashpadInProcessHandler",
                                    InProcessForward(a), libRet)>>,
                           ReturnOf(libRet))
    /\ UNCHANGED <<platform, live, owned>>

crashpad_client_process_intermediate_dumps ==
    /\ Alive
    /\ Exposed(platform, SigIntermediateDumps)
    /\ last' = Call("crashpad_client_process_intermediate_dumps", NoArgs, "none",
                    "returned", <<Native("ProcessIntermediateDumps", NoArgs, "void")>>,
                    "void")
    /\ UNCHANGED <<platform, live, owned>>

crashpad_client_start_processing_pending_reports ==
    /\ Alive
    /\ Exposed(platform, SigPendingReports)
    /\ last' = Call("crashpad_client_start_processing_pending_reports", NoArgs, "none",
                    "returned",
                    <<Native("StartProcessingPendingReports", NoArgs, "void")>>,
                    "void")
    /\ UNCHANGED <<platform, live, owned>>

(***************************************************************************)
(* crashpad_dump_without_crash, crashpad_dump_without_crash_with_context   *)
(***************************************************************************)
\* A build that calls CrashpadClient::DumpWithoutCrash on every platform.
AlwaysDumpWithoutCrash(env) == "DumpWithoutCrash"

\* The #ifdef chain of both dump functions: the primitive each branch calls.
DumpPrimitive(env) ==
    IF CcGuardWin32(env) THEN "DumpWithoutCrash"
    ELSE IF CcGuardApple(env)
         THEN IF Val(env, "TARGET_OS_IOS") # 0 THEN "DumpWithoutCrash"
              ELSE "SimulateCrash"
    ELSE IF CcGuardLinux(env) THEN "DumpWithoutCrash"
    ELSE "#error"

\* CaptureContext(&context) fills the local with the current CPU context c;
\* the primitive is then called on that local.
crashpad_dump_without_crash ==
    /\ Alive
    /\ Exposed(platform, SigDump)
    /\ \E c \in Contexts :
        last' = Call("crashpad_dump_without_crash", NoArgs, c, "returned",
                     <<Native(DumpPrimitive(CcEnv(platform)), [context |-> c], "void")>>,
                     "void")
    /\ UNCHANGED <<platform, live, owned>>

\* The caller's pointer is cast and handed to the primitive; nothing is
\* captured and nothing is kept.
crashpad_dump_without_crash_with_context ==
    /\ Alive
    /\ Exposed(platform, SigDumpCtx(CcDumpCtxParam(CcEnv(platform))))
    /\ \E ctx \in Contexts :
        last' = Call("crashpad_dump_without_crash_with_context", [context |-> ctx],
                     "none", "returned",
                     <<Native(DumpPrimitive(CcEnv(platform)), [context |-> ctx], "void")>>,
                     "void")
    /\ UNCHANGED <<platform, live, owned>>

(***************************************************************************)
(* Specifications.                                                         *)
(***************************************************************************)
\* The whole surface, from a process that holds no client yet.
Init ==
    /\ platform \in Platforms
    /\ live = {}
    /\ owned = <<>>
    /\ last = NoCall

ApiStartHandler == crashpad_client_start_handler(StartInputs(ApiAnn, ApiArgs))

ApiStartInProcessHandler ==
    crashpad_client_start_in_process_handler(InProcessInputs(ApiAnn))

Next ==
    \/ crashpad_client_new
    \/ crashpad_client_delete
    \/ ApiStartHandler
    \/ crashpad_client_set_handler_ipc_pipe
    \/ crashpad_client_set_handler_mach_service
    \/ crashpad_client_use_system_default_handler
    \/ ApiStartInProcessHandler
    \/ crashpad_client_process_intermediate_dumps
    \/ crashpad_client_start_processing_pending_reports
    \/ crashpad_dump_without_crash
    \/ crashpad_dump_without_crash_with_context

Spec == Init /\ [][Next]_vars

\* The marshalling calls on their full input sets, from a process that has
\* created one client.
InitMarshal ==
    /\ platform \in Platforms
    /\ \E a \in {CHOOSE x \in Allocate({}) : TRUE} :
        /\ live = {a}
        /\ owned = <<a>>
    /\ last = NoCall

MarshalStartHandler == crashpad_client_start_handler(StartInputs(MaxAnn, MaxArgs))

MarshalStartInProcessHandler ==
    crashpad_client_start_in_process_handler(InProcessInputs(MaxAnn))

NextMarshal ==
    \/ MarshalStartHandler
    \/ MarshalStartInProcessHandler

SpecMarshal == InitMarshal /\ [][NextMarshal]_vars

(***************************************************************************)
(* Properties.                                                             *)
(***************************************************************************)
IsStartHandler == last.op = "crashpad_client_start_handler"

IsInProcess == last.op = "crashpad_client_start_in_process_handler"

Returned == last.outcome = "returned"

\* The arguments of the one library call the last adapter call made.
Forwarded == last.native[1].arg

Range(s) == {s[i] : i \in 1..Len(s)}

\* The largest index at which k occurs in keys.
LastIndexOf(keys, k) ==
    CHOOSE i \in 1..Len(keys) :
        keys[i] = k /\ \A j \in 1..Len(keys) : keys[j] = k => j <= i

\* The mapping from each distinct key to the value at its last occurrence.
LastWriteWins(keys, vals) ==
    [k \in Range(keys) |-> vals[LastIndexOf(keys, k)]]

\* C1: whenever crashpad_client_start_handler or
\* crashpad_client_start_in_process_handler forwards an annotation mapping,
\* its domain is exactly the set of distinct keys passed and it maps each key
\* to the value at the largest index where that key occurs (last write wins).
C1_LastWriteWins ==
    ((IsStartHandler \/ IsInProcess) /\ Returned) =>
        Forwarded.annotations =
            LastWriteWins(last.args.annotations_keys, last.args.annotations_values)

\* A call that passed the same key twice with different values was forwarded
\* with the later value.
C1_Witness ==
    /\ IsStartHandler
    /\ Returned
    /\ \E i, j \in 1..last.args.annotations_count :
        /\ i < j
        /\ last.args.annotations_keys[i] = last.args.annotations_keys[j]
        /\ last.args.annotations_values[i] # last.args.annotations_values[j]
        /\ Forwarded.annotations[last.args.annotations_keys[j]] =
               last.args.annotations_values[j]

\* C2: the argument list crashpad_client_start_handler forwards is exactly
\* the subsequence of non-null entries of extra_arguments in their original
\* order, so its length is the number of non-null entries; with a null
\* extra_arguments pointer it is empty whatever extra_arguments_count is.
C2_ArgumentsSkipNulls ==
    (IsStartHandler /\ Returned) =>
        LET extra == last.args.extra_arguments
            kept == SelectSeq(extra.elems, LAMBDA x : x # NULL)
        IN  IF extra.null
            THEN Forwarded.arguments = <<>>
            ELSE /\ Forwarded.arguments = kept
                 /\ Len(Forwarded.arguments) =
                        Cardinality({i \in 1..Len(extra.elems) : extra.elems[i] # NULL})

\* A call whose array held a null entry before a non-null one was forwarded
\* with only the non-null one.
C2_Witness ==
    /\ IsStartHandler
    /\ Returned
    /\ ~last.args.extra_arguments.null
    /\ last.args.extra_arguments_count >= 2
    /\ last.args.extra_arguments.elems[1] = NULL
    /\ last.args.extra_arguments.elems[2] # NULL
    /\ Forwarded.arguments = <<last.args.extra_arguments.elems[2]>>

OrEmpty(ptr) == IF ptr = NULL THEN "" ELSE ptr

OrEmptyAll(arr) == [i \in 1..Len(arr) |-> OrEmpty(arr[i])]

\* C3: every null text pointer is treated as the empty string: a call of
\* crashpad_client_start_handler or crashpad_client_start_in_process_handler
\* with handler_path, database_path, metrics_path, url or any annotation key
\* or value null completes and forwards the empty string in its place.
C3_NullIsEmpty ==
    /\ IsStartHandler =>
        /\ Returned
        /\ Forwarded.handler.value = OrEmpty(last.args.handler_path)
        /\ Forwarded.database.value = OrEmpty(last.args.database_path)
        /\ Forwarded.metrics.value = OrEmpty(last.args.metrics_path)
        /\ Forwarded.url = OrEmpty(last.args.url)
        /\ Forwarded.annotations =
               LastWriteWins(OrEmptyAll(last.args.annotations_keys),
                             OrEmptyAll(last.args.annotations_values))
    /\ IsInProcess =>
        /\ Returned
        /\ Forwarded.database.value = OrEmpty(last.args.database_path)
        /\ Forwarded.url = OrEmpty(last.args.url)
        /\ Forwarded.annotations =
               LastWriteWins(OrEmptyAll(last.args.annotations_keys),
                             OrEmptyAll(last.args.annotations_values))

\* C4 as claimed: crashpad_client_start_handler requests blocking startup
\* on Linux alone and asynchronous startup on every other platform, Android
\* included.
C4_OnlyLinuxBlocks ==
    (IsStartHandler /\ Returned) =>
        Forwarded.asynchronous_start = (platform # "Linux")

\* C4 as amended: crashpad_client_start_handler requests blocking startup
\* on Linux and on Android (both builds define __linux__) and asynchronous
\* startup on Windows, macOS and iOS; the value is fixed by the platform
\* alone, whatever the arguments of the call and whatever calls came before.
C4_LinuxTargetsBlock ==
    (IsStartHandler /\ Returned) =>
        Forwarded.asynchronous_start = (platform \notin {"Linux", "Android"})

\* An Android build started a handler and asked for blocking startup.
C4_Witness ==
    /\ platform = "Android"
    /\ IsStartHandler
    /\ Returned
    /\ Forwarded.asynchronous_start = FALSE

UniversalOps ==
    {"crashpad_client_new", "crashpad_client_delete",
     "crashpad_client_start_handler", "crashpad_dump_without_crash",
     "crashpad_dump_without_crash_with_context"}

AppleOps ==
    {"crashpad_client_set_handler_mach_service",
     "crashpad_client_use_system_default_handler"}

IOSOps ==
    {"crashpad_client_start_in_process_handler",
     "crashpad_client_process_intermediate_dumps",
     "crashpad_client_start_processing_pending_reports"}

PlatformOps(p) ==
    CASE p = "Windows" -> {"crashpad_client_set_handler_ipc_pipe"}
      [] p = "macOS"   -> AppleOps
      [] p = "iOS"     -> AppleOps \cup IOSOps
      [] p = "Linux"   -> {}
      [] p = "Android" -> {}

C6_HandleLifecycle ==
    /\ live = Range(owned)
    /\ Cardinality(Range(owned)) = Len(owned)
    /\ last.op = "crashpad_client_new" => last.result \in live
    /\ last.op = "crashpad_client_delete" => last.args.client \notin live
    /\ owned = <<>> => live = {}

\* Two clients were created and one of them deleted: the other is still
\* live and the deleted one is not.
C6_Witness ==
    /\ last.op = "crashpad_client_delete"
    /\ Len(owned) = 1
    /\ live = {owned[1]}
    /\ last.args.client # owned[1]

LibraryMethod(op) ==
    CASE op = "crashpad_client_start_handler" -> "StartHandler"
      [] op = "crashpad_client_set_handler_ipc_pipe" -> "SetHandlerIPCPipe"
      [] op = "crashpad_client_set_handler_mach_service" -> "SetHandlerMachService"
      [] op = "crashpad_client_start_in_process_handler" -> "StartCrashpadInProcessHandler"

PassThroughOps ==
    {"crashpad_client_start_handler", "crashpad_client_set_handler_ipc_pipe",
     "crashpad_client_set_handler_mach_service",
     "crashpad_client_start_in_process_handler"}

\* C7: a call of start_handler, set_handler_ipc_pipe, set_handler_mach_service
\* or start_in_process_handler never invokes the library more than once, and
\* when it returns it has invoked the corresponding library method exactly
\* once and returns exactly the boolean that invocation returned.
C7_PassThrough ==
    last.op \in PassThroughOps =>
        /\ Len(last.native) <= 1
        /\ Returned =>
            /\ Len(last.native) = 1
            /\ last.native[1].fn = LibraryMethod(last.op)
            /\ last.result = last.native[1].ret

\* The library reported failure and the wrapper returned false.
C7_Witness ==
    /\ IsStartHandler
    /\ Returned
    /\ last.native[1].ret = FALSE
    /\ last.result = FALSE

ExpectedPrimitive(p) == IF p = "macOS" THEN "SimulateCrash" ELSE "DumpWithoutCrash"

\* C8: crashpad_dump_without_crash captures a context into a call-local
\* value, hands that same context to exactly one dump primitive
\* (SimulateCrash on macOS, DumpWithoutCrash elsewhere) and returns;
\* crashpad_dump_without_crash_with_context hands the caller's context to the
\* same primitive, captures nothing and returns.
C8_DumpReturns ==
    /\ last.op = "crashpad_dump_without_crash" =>
        /\ Returned
        /\ last.local \in Contexts
        /\ Len(last.native) = 1
        /\ last.native[1].fn = ExpectedPrimitive(platform)
        /\ last.native[1].arg.context = last.local
    /\ last.op = "crashpad_dump_without_crash_with_context" =>
        /\ Returned
        /\ last.local = "none"
        /\ Len(last.native) = 1
        /\ last.native[1].fn = ExpectedPrimitive(platform)
        /\ last.native[1].arg.context = last.args.context

\* A macOS build dumped through SimulateCrash and returned.
C8_Witness ==
    /\ platform = "macOS"
    /\ last.op = "crashpad_dump_without_crash"
    /\ Returned
    /\ last.native[1].fn = "SimulateCrash"

C10_HeaderMatchesImplementation ==
    HDeclarations(HEnv(platform)) = CcDefinitions(CcEnv(platform))

====
